---- MODULE Spec2Model ----
(***************************************************************************)
(* Model of the endpoints operator (FortnoxAB/endpoints-operator).         *)
(*                                                                         *)
(* The repository holds two variants of one program:                      *)
(*   "label"  - src/main.go: the managed services are the Service objects  *)
(*              carrying the enabled label, the node selector is read from *)
(*              an annotation;                                             *)
(*   "static" - src/unnamed/part_000: the managed services are two fixed   *)
(*              roles configured by flags.                                 *)
(* Everything below syncAndLog is the same code in both.  The Kubernetes   *)
(* API server (the store), the ticker, the stop signal and the HTTP        *)
(* listener are the environment the code calls into; they are modelled by  *)
(* their contract at the call sites.                                       *)
(***************************************************************************)
EXTENDS Integers, Sequences, FiniteSets, TLC

\* ------------------------------------------------------------------ bounds

\* Service objects the store can hold (distinct namespace/name keys).
MaxSvc == 2
\* Ports a service declares: 0..MaxPorts.
MaxPorts == 2
\* Firings of the ticker that are followed.
MaxTicks == 3
\* Firings of the ticker that are followed when checking convergence.
MaxLiveTicks == 2
\* Changes made by the environment (other writers, node pool, services).
MaxEnvChanges == 1
\* Length of the node list handed to getNodeAddresses on its own.
MaxNodes == 3

\* ------------------------------------------------------------ program data

\* time.NewTicker delivers on a channel of capacity 1 (ticker.C).
TickerBuf == 1

\* serviceList: the two roles of the static variant.
RoleNames == <<"scheduler", "controller-manager">>

Ns == "kube-system"
SvcNames == <<"svc1", "svc2", "svc3", "svc4">>
SvcIds == 1..MaxSvc
\* The key of a Service object and of its Endpoints object: (namespace, name).
Keys == {<<Ns, SvcNames[k]>> : k \in SvcIds}
KeyOrder == [k \in SvcIds |-> <<Ns, SvcNames[k]>>]

NoRecord == [exists |-> FALSE]
NoToken == 0
Null == [null |-> TRUE]

\* ----------------------------------------------------------- pure helpers

\* strings.Split(s, "/") on a string given as its sequence of tokens.
RECURSIVE Split(_)
Split(s) ==
  IF s = <<>> THEN << <<>> >>
  ELSE IF Head(s) = "/" THEN << <<>> >> \o Split(Tail(s))
  ELSE LET rest == Split(Tail(s))
       IN  << <<Head(s)>> \o Head(rest) >> \o Tail(rest)

\* Service.Namespace() and Service.Service(): parts[0] and parts[1].
Namespace(s) == Split(s.service)[1]
Service(s) == Split(s.service)[2]

\* The name a one-token string stands for ("" for the empty string).
Str(part) == IF part = <<>> THEN "" ELSE part[1]

\* nodeAddress builds m: address type -> the addresses of that type, in the
\* order they are listed (m[a.Type] = append(m[a.Type], a.Address)).
AddrMap(as) ==
  [t \in {as[i].type : i \in 1..Len(as)} |->
     LET ofType == SelectSeq(as, LAMBDA a : a.type = t)
     IN  [i \in 1..Len(ofType) |-> ofType[i].address]]

nodeAddressFirstListed(node) ==
  IF node.addrs = <<>> THEN [ok |-> FALSE, address |-> ""]
  ELSE IF node.addrs[1].type \in {"InternalIP", "ExternalIP"}
       THEN [ok |-> TRUE, address |-> node.addrs[1].address]
       ELSE [ok |-> FALSE, address |-> ""]

\* nodeAddress: internal first, then external, else "host address unknown".
nodeAddress(node) ==
  LET m == AddrMap(node.addrs)
  IN  IF "InternalIP" \in DOMAIN m THEN [ok |-> TRUE, address |-> m["InternalIP"][1]]
      ELSE IF "ExternalIP" \in DOMAIN m THEN [ok |-> TRUE, address |-> m["ExternalIP"][1]]
      ELSE [ok |-> FALSE, address |-> ""]

\* getNodeAddresses: one EndpointAddress per node with an address, one error
\* per node without; the loop continues past a failing node.
RECURSIVE getNodeAddresses(_)
getNodeAddresses(ns) ==
  IF ns = <<>> THEN [addresses |-> <<>>, errs |-> <<>>]
  ELSE LET n == ns[Len(ns)]
           r == getNodeAddresses(SubSeq(ns, 1, Len(ns) - 1))
           a == nodeAddress(n)
       IN  IF ~a.ok
           THEN [r EXCEPT !.errs = Append(@, n.name)]
           ELSE [r EXCEPT !.addresses = Append(@, [ip |-> a.address, targetRef |-> n.name])]

\* ------------------------------------------------------------- node pool

Addr(t, a) == [type |-> t, address |-> a]

\* The machines of the pool: labels and status addresses.
NodeOrder == <<"n1", "n2", "n3">>
NodeNames == {"n1", "n2", "n3"}
NodeLabels ==
  [n \in NodeNames |->
     CASE n = "n1" -> {"a", "b"}
       [] n = "n2" -> {"a"}
       [] OTHER    -> {"a", "b"}]
NodeAddrs ==
  [n \in NodeNames |->
     CASE n = "n1" -> <<Addr("ExternalIP", "203.0.113.4"), Addr("InternalIP", "10.0.0.1"),
                        Addr("InternalIP", "10.0.0.9")>>
       [] n = "n2" -> <<Addr("Hostname", "h2"), Addr("ExternalIP", "203.0.113.5"),
                        Addr("ExternalIP", "203.0.113.6")>>
       [] OTHER    -> <<Addr("Hostname", "h3")>>]
Node(n) == [name |-> n, addrs |-> NodeAddrs[n]]

\* Address lists a node handed to getNodeAddresses on its own may carry.
AddrLists ==
  { <<>>,
    <<Addr("Hostname", "h")>>,
    <<Addr("InternalIP", "10.0.0.1"), Addr("InternalIP", "10.0.0.9")>>,
    <<Addr("ExternalIP", "203.0.113.5"), Addr("ExternalIP", "203.0.113.6")>>,
    <<Addr("Hostname", "h"), Addr("ExternalIP", "203.0.113.5"),
      Addr("InternalIP", "10.0.0.1")>> }

\* ---------------------------------------------------------------- services

\* The ports a Service declares (name, port, targetPort), n of them.
AllPorts ==
  <<[name |-> "http-metrics", port |-> 10251, targetPort |-> 10251],
    [name |-> "https", port |-> 10257, targetPort |-> 443],
    [name |-> "extra", port |-> 10252, targetPort |-> 10252],
    [name |-> "more", port |-> 10253, targetPort |-> 10253]>>
ServicePorts(n) == SubSeq(AllPorts, 1, n)

\* The labels of a Service object.
ServiceLabels(svc) ==
  IF svc.enabled THEN {"endpoints-operator.fnox.se/enabled"} ELSE {}

\* The node selector of a service (the annotation's value).
Selectors == <<"a", "b", "a", "b">>


\* ------------------------------------------------------------------ state

VARIABLES
  variant,        \* "label" (src/main.go) or "static" (src/unnamed/part_000)
  serviceList,    \* static variant: the roles with their flags
  services,       \* store: Service objects by key
  nodes,          \* store: the registered machines
  endpoints,      \* store: Endpoints objects by key
  rvCounter,      \* store: the last version token handed out
  envBudget,      \* changes the environment may still make
  stable,         \* the environment has stopped changing and failing
  mainPc,         \* main: "start", "terminated", "serving", "exited"
  shutdown,       \* the shutdown channel is closed
  httpDone,       \* srv.ListenAndServe has returned (wg.Done)
  pc,             \* periodicSyncer: where the goroutine is
  idx,            \* syncAndLog: position in the range loop (1-based)
  items,          \* syncAndLog: the list being ranged over
  service,        \* syncNodeEndpoints: the Service fetched
  listed,         \* syncNodeEndpoints: the nodes listed
  errs,           \* syncNodeEndpoints: the per-node errors logged
  eps,            \* syncNodeEndpoints: the Endpoints object built
  fetched,        \* CreateOrUpdateEndpoints: result of eclient.Get
  tickerOn,       \* time.NewTicker has been called
  tickPending,    \* ticks buffered in ticker.C
  ticksFired,     \* observation: firings of the ticker
  ticksConsumed,  \* observation: ticks received by the select
  cyclesStarted,  \* observation: calls of syncAndLog
  outcome,        \* observation: this cycle's result per list entry so far
  written,        \* observation: keys written by the operator in this cycle
  applyLog        \* observation: store calls of the current CreateOrUpdateEndpoints

cfgVars == <<variant, serviceList>>
storeVars == <<services, nodes, endpoints, rvCounter>>
envVars == <<envBudget, stable>>
mainVars == <<mainPc, shutdown, httpDone>>
localVars == <<service, listed, errs, eps, fetched>>
tickVars == <<tickerOn, tickPending, ticksFired, ticksConsumed>>
cycleVars == <<idx, items, cyclesStarted, outcome, written>>
vars == <<cfgVars, storeVars, envVars, mainVars, pc, localVars, tickVars, cycleVars,
          applyLog>>

\* ---------------------------------------------------------- configuration

\* Values the <role>-service flag of role r is given: unset, namespace/name of
\* a service, no separator, two separators.
TargetChoices(r) ==
  { <<>>, <<Ns, "/", SvcNames[r]>>, <<SvcNames[r]>>, <<Ns, "/", SvcNames[r], "/", "x">> }

\* serviceList after flag.Parse: role r with its two flags.
Role(r, target) ==
  [Name |-> RoleNames[r], service |-> target, NodeLabelSelector |-> Selectors[r]]

\* The flags of the two roles; no two roles are pointed at the same service.
StaticConfigs ==
  {<<Role(1, t1), Role(2, t2)>> : t1 \in TargetChoices(1), t2 \in TargetChoices(2)}

MalformedTooFew(list) ==
  \E r \in 1..Len(list) :
    list[r].service # <<>> /\ Len(Split(list[r].service)) < 2

\* main's validation loop: some configured target does not split in two.
Malformed(list) ==
  \E r \in 1..Len(list) :
    list[r].service # <<>> /\ Len(Split(list[r].service)) # 2

\* ------------------------------------------------------------- list items

ItemSkippedUnsetOnly(item) ==
  IF variant = "static" THEN item.service = <<>> ELSE FALSE

\* syncAndLog's skip test: unset target (static), missing annotation (label).
ItemSkipped(item) ==
  IF variant = "static" THEN item.service = <<>> ELSE ~item.annotated

ItemKey(item) ==
  IF variant = "static" THEN <<Str(Namespace(item)), Str(Service(item))>>
  ELSE <<item.namespace, item.name>>

ItemSelector(item) ==
  IF variant = "static" THEN item.NodeLabelSelector ELSE item.selector

EnabledServicesAll ==
  LET on(k) == services[KeyOrder[k]].exists
      obj(k) == [namespace |-> Ns, name |-> SvcNames[k],
                 annotated |-> services[KeyOrder[k]].annotated,
                 selector |-> Selectors[k]]
      RECURSIVE upto(_)
      upto(k) == IF k = 0 THEN <<>>
                 ELSE IF on(k) THEN Append(upto(k - 1), obj(k)) ELSE upto(k - 1)
  IN  upto(MaxSvc)

\* kubeClient.Services("").List with the enabled label selector.
EnabledServices ==
  LET on(k) == services[KeyOrder[k]].exists /\ services[KeyOrder[k]].enabled
      obj(k) == [namespace |-> Ns, name |-> SvcNames[k],
                 annotated |-> services[KeyOrder[k]].annotated,
                 selector |-> Selectors[k]]
      RECURSIVE upto(_)
      upto(k) == IF k = 0 THEN <<>>
                 ELSE IF on(k) THEN Append(upto(k - 1), obj(k)) ELSE upto(k - 1)
  IN  upto(MaxSvc)

\* kubeClient.Nodes().List with a label selector: the matching nodes by name.
MatchingNodes(sel) ==
  LET RECURSIVE upto(_)
      upto(k) == IF k = 0 THEN <<>>
                 ELSE IF NodeOrder[k] \in nodes /\ sel \in NodeLabels[NodeOrder[k]]
                      THEN Append(upto(k - 1), Node(NodeOrder[k]))
                      ELSE upto(k - 1)
  IN  upto(Len(NodeOrder))

\* ------------------------------------------------------- endpoints builder

EndpointPorts(ps) == [j \in 1..Len(ps) |-> [name |-> ps[j].name, port |-> ps[j].port]]

BuildEndpointsPerNode(svc, addresses) ==
  [name |-> svc.name, labels |-> svc.labels, resourceVersion |-> NoToken,
   subsets |-> [i \in 1..Len(addresses) |->
                  [ports |-> EndpointPorts(svc.ports), addresses |-> <<addresses[i]>>]]]

\* The Endpoints object syncNodeEndpoints builds: one subset.
BuildEndpoints(svc, addresses) ==
  [name |-> svc.name, labels |-> svc.labels, resourceVersion |-> NoToken,
   subsets |-> << [ports |-> EndpointPorts(svc.ports), addresses |-> addresses] >>]

\* What the store holds after accepting a write of e.
Stored(e, rv) ==
  [exists |-> TRUE, rv |-> rv, labels |-> e.labels, subsets |-> e.subsets]

\* What another writer puts into a record.
ForeignRecord(rv) ==
  [exists |-> TRUE, rv |-> rv, labels |-> {"other-writer"}, subsets |-> <<>>]

\* ------------------------------------------------------------------- Init

Init ==
  /\ variant \in {"label", "static"}
  /\ serviceList \in StaticConfigs
  /\ variant = "label" => serviceList = <<Role(1, <<>>), Role(2, <<>>)>>
  /\ \E first \in BOOLEAN :
       /\ variant = "static" => first
       /\ services = [key \in Keys |->
                        [exists |-> TRUE, enabled |-> TRUE,
                         annotated |-> (key # KeyOrder[1]) \/ first,
                         nports |-> IF key = KeyOrder[1] THEN MaxPorts ELSE 0]]
  /\ nodes \in {{}, NodeNames}
  /\ endpoints = [k \in Keys |-> NoRecord]
  /\ rvCounter = 0
  /\ envBudget = MaxEnvChanges
  /\ stable = FALSE
  /\ mainPc = "start"
  /\ shutdown = FALSE
  /\ httpDone = FALSE
  /\ pc = "init"
  /\ idx = 0
  /\ items = <<>>
  /\ service = Null
  /\ listed = <<>>
  /\ errs = <<>>
  /\ eps = Null
  /\ fetched = Null
  /\ tickerOn = FALSE
  /\ tickPending = 0
  /\ ticksFired = 0
  /\ ticksConsumed = 0
  /\ cyclesStarted = 0
  /\ outcome = <<>>
  /\ written = {}
  /\ applyLog = <<>>


\* ------------------------------------------------------------------- main

Alive == mainPc = "serving"

\* main up to "go periodicSyncer(shutdown)": the static variant validates the
\* targets and returns on a malformed one; then the listener and the syncer
\* goroutines are started and main blocks on <-shutdown.
MainStart ==
  /\ mainPc = "start"
  /\ mainPc' = IF variant = "static" /\ Malformed(serviceList)
               THEN "terminated" ELSE "serving"
  /\ UNCHANGED <<cfgVars, storeVars, envVars, shutdown, httpDone, pc, localVars,
                 tickVars, cycleVars, applyLog>>

\* The stop signal: gograce closes the shutdown channel.
StopSignal ==
  /\ mainPc = "serving" /\ ~shutdown /\ ~stable
  /\ shutdown' = TRUE
  /\ UNCHANGED <<cfgVars, storeVars, envVars, mainPc, httpDone, pc, localVars,
                 tickVars, cycleVars, applyLog>>

\* The listener goroutine: srv.ListenAndServe returns once the server is shut
\* down, and the deferred wg.Done runs.
HttpDone ==
  /\ Alive /\ ~httpDone
  /\ shutdown
  /\ httpDone' = TRUE
  /\ UNCHANGED <<cfgVars, storeVars, envVars, mainPc, shutdown, pc, localVars,
                 tickVars, cycleVars, applyLog>>

\* What wg.Wait() waits for: wg.Add(1) counts the listener goroutine only.
WaitGroupDone == httpDone

\* <-shutdown; wg.Wait(): main returns, the process exits, and every goroutine
\* with it.
MainExit ==
  /\ mainPc = "serving" /\ shutdown /\ WaitGroupDone
  /\ mainPc' = "exited"
  /\ UNCHANGED <<cfgVars, storeVars, envVars, shutdown, httpDone, pc, localVars,
                 tickVars, cycleVars, applyLog>>

\* ----------------------------------------------------------------- ticker

DeliverQueued(pending) == pending + 1

\* The ticker sends on ticker.C without blocking: a tick that finds the
\* buffer full is dropped.
Deliver(pending) == IF pending < TickerBuf THEN pending + 1 ELSE pending

Tick ==
  /\ Alive /\ tickerOn /\ pc # "done"
  /\ ticksFired < MaxTicks
  /\ ticksFired' = ticksFired + 1
  /\ tickPending' = Deliver(tickPending)
  /\ UNCHANGED <<cfgVars, storeVars, envVars, mainVars, pc, localVars, tickerOn,
                 ticksConsumed, cycleVars, applyLog>>

\* ----------------------------------------------------------- periodicSyncer

\* Entry of syncAndLog: the static variant ranges over serviceList, the label
\* variant first lists the enabled services.
BeginCycle ==
  /\ cyclesStarted' = cyclesStarted + 1
  /\ idx' = 1
  /\ outcome' = <<>>
  /\ written' = {}
  /\ items' = IF variant = "static" THEN serviceList ELSE <<>>
  /\ pc' = IF variant = "static" THEN "loop" ELSE "list"

\* Return of syncAndLog: back in periodicSyncer, which creates the ticker after
\* the first call and then selects.
EndCycle ==
  /\ pc' = "select"
  /\ tickerOn' = TRUE
  /\ idx' = 0
  /\ items' = <<>>
  /\ outcome' = <<>>
  /\ written' = {}

\* periodicSyncer's first statement: syncAndLog().
FirstCycle ==
  /\ Alive /\ pc = "init"
  /\ BeginCycle
  /\ UNCHANGED <<cfgVars, storeVars, envVars, mainVars, localVars, tickVars, applyLog>>

ReceiveKeep(pending) == pending

\* Receiving from ticker.C takes one tick out of the buffer.
Receive(pending) == pending - 1

\* select, case <-stopc: return (the deferred ticker.Stop runs).
SelectStop ==
  /\ Alive /\ pc = "select"
  /\ shutdown
  /\ pc' = "done"
  /\ UNCHANGED <<cfgVars, storeVars, envVars, mainVars, localVars, tickVars, cycleVars,
                 applyLog>>

\* select, case <-ticker.C: syncAndLog().  When both channels are ready the
\* select takes either case.
SelectTick ==
  /\ Alive /\ pc = "select"
  /\ tickPending > 0
  /\ tickPending' = Receive(tickPending)
  /\ ticksConsumed' = ticksConsumed + 1
  /\ BeginCycle
  /\ UNCHANGED <<cfgVars, storeVars, envVars, mainVars, localVars, tickerOn, ticksFired,
                 applyLog>>

\* ----------------------------------------------------------------- syncAndLog

ListServicesFatal ==
  /\ Alive /\ pc = "list"
  /\ \/ /\ ~stable
        /\ pc' = "done"
        /\ UNCHANGED <<tickerOn, idx, items, outcome, written>>
     \/ /\ items' = EnabledServices
        /\ pc' = "loop"
        /\ UNCHANGED <<tickerOn, idx, outcome, written>>
  /\ UNCHANGED <<cfgVars, storeVars, envVars, mainVars, localVars, tickPending,
                 ticksFired, ticksConsumed, cyclesStarted, applyLog>>

\* The label variant's kubeClient.Services("").List: on an error the cycle
\* ends, otherwise the loop ranges over the items returned.
ListServices ==
  /\ Alive /\ pc = "list"
  /\ \/ /\ ~stable
        /\ EndCycle
     \/ /\ items' = EnabledServices
        /\ pc' = "loop"
        /\ UNCHANGED <<tickerOn, idx, outcome, written>>
  /\ UNCHANGED <<cfgVars, storeVars, envVars, mainVars, localVars, tickPending,
                 ticksFired, ticksConsumed, cyclesStarted, applyLog>>

ClearLocals ==
  /\ service' = Null
  /\ listed' = <<>>
  /\ errs' = <<>>
  /\ eps' = Null
  /\ fetched' = Null
  /\ applyLog' = <<>>

NextAfterErrorRetry(i, n) == i

NextAfterErrorReturn(i, n) == n + 1

\* After syncNodeEndpoints returned an error, which is logged: the range loop
\* goes on with the next item.
NextAfterError(i, n) == i + 1

\* The result of one item is known: record it and go to the loop head.
Finish(res) ==
  /\ outcome' = Append(outcome, res)
  /\ idx' = IF res = "err" THEN NextAfterError(idx, Len(items)) ELSE idx + 1
  /\ pc' = "loop"

\* The head of the range loop: return after the last item, skip an item
\* without target or annotation, otherwise call syncNodeEndpoints.
Loop ==
  /\ Alive /\ pc = "loop"
  /\ \/ /\ idx > Len(items)
        /\ EndCycle
        /\ UNCHANGED cyclesStarted
     \/ /\ idx <= Len(items) /\ ItemSkipped(items[idx])
        /\ Finish("skipped")
        /\ UNCHANGED <<tickerOn, items, cyclesStarted, written>>
     \/ /\ idx <= Len(items) /\ ~ItemSkipped(items[idx])
        /\ pc' = "getsvc"
        /\ UNCHANGED <<tickerOn, cycleVars>>
  /\ ClearLocals
  /\ UNCHANGED <<cfgVars, storeVars, envVars, mainVars, tickPending, ticksFired,
                 ticksConsumed>>


\* ---------------------------------------------------------- syncNodeEndpoints

CurrentItem == items[idx]

GetServiceCleanup ==
  /\ Alive /\ pc = "getsvc"
  /\ LET key == ItemKey(CurrentItem)
     IN  \/ /\ ~stable \/ key \notin Keys \/ ~services[key].exists
            /\ Finish("err")
            /\ endpoints' = [k \in Keys |-> IF k = key THEN NoRecord ELSE endpoints[k]]
            /\ UNCHANGED service
         \/ /\ key \in Keys /\ services[key].exists
            /\ service' = [namespace |-> key[1], name |-> key[2],
                           labels |-> ServiceLabels(services[key]),
                           ports |-> ServicePorts(services[key].nports)]
            /\ pc' = "listnodes"
            /\ UNCHANGED <<idx, outcome, endpoints>>
  /\ UNCHANGED <<cfgVars, services, nodes, rvCounter, envVars, mainVars, listed, errs,
                 eps, fetched, tickVars, items, cyclesStarted, written, applyLog>>

\* kubeClient.Services(namespace).Get(name): an error (the call fails, or the
\* service is not there) is returned to syncAndLog; otherwise the Service.
GetService ==
  /\ Alive /\ pc = "getsvc"
  /\ LET key == ItemKey(CurrentItem)
     IN  \/ /\ ~stable \/ key \notin Keys \/ ~services[key].exists
            /\ Finish("err")
            /\ UNCHANGED service
         \/ /\ key \in Keys /\ services[key].exists
            /\ service' = [namespace |-> key[1], name |-> key[2],
                           labels |-> ServiceLabels(services[key]),
                           ports |-> ServicePorts(services[key].nports)]
            /\ pc' = "listnodes"
            /\ UNCHANGED <<idx, outcome>>
  /\ UNCHANGED <<cfgVars, storeVars, envVars, mainVars, listed, errs, eps, fetched,
                 tickVars, items, cyclesStarted, written, applyLog>>

\* Lines after a successful node listing: getNodeAddresses, the errors are
\* logged as warnings, and the addresses complete the one subset of eps.
Resolve(nodeList) ==
  LET r == getNodeAddresses(nodeList)
  IN  /\ listed' = nodeList
      /\ errs' = r.errs
      /\ eps' = BuildEndpoints(service, r.addresses)

\* kubeClient.Nodes().List(selector): an error is returned to syncAndLog
\* ("listing nodes failed"); otherwise the addresses are resolved.
ListNodes ==
  /\ Alive /\ pc = "listnodes"
  /\ \/ /\ ~stable
        /\ Finish("err")
        /\ UNCHANGED <<listed, errs, eps>>
     \/ /\ Resolve(MatchingNodes(ItemSelector(CurrentItem)))
        /\ pc' = "getep"
        /\ UNCHANGED <<idx, outcome>>
  /\ UNCHANGED <<cfgVars, storeVars, envVars, mainVars, service, fetched, tickVars,
                 items, cyclesStarted, written, applyLog>>

\* ------------------------------------------------------ CreateOrUpdateEndpoints

\* The Endpoints object that goes with the fetched Service.
EpsKey == <<service.namespace, eps.name>>

Call(op, token, res, before) ==
  [op |-> op, token |-> token, res |-> res, before |-> before]

\* The version token of a stored record (NoToken when there is none).
TokenOf(rec) == IF rec.exists THEN rec.rv ELSE NoToken

\* eclient.Get(eps.Name): an error other than not-found is returned; not-found
\* and found are told apart in the next step.
GetEndpoints ==
  /\ Alive /\ pc = "getep"
  /\ LET rec == endpoints[EpsKey]
     IN  \/ /\ ~stable
            /\ applyLog' = Append(applyLog, Call("get", NoToken, "error", TokenOf(rec)))
            /\ Finish("err")
            /\ UNCHANGED fetched
         \/ /\ ~rec.exists
            /\ fetched' = [found |-> FALSE, resourceVersion |-> NoToken]
            /\ applyLog' = Append(applyLog, Call("get", NoToken, "notfound", NoToken))
            /\ pc' = "write"
            /\ UNCHANGED <<idx, outcome>>
         \/ /\ rec.exists
            /\ fetched' = [found |-> TRUE, resourceVersion |-> rec.rv]
            /\ applyLog' = Append(applyLog, Call("get", rec.rv, "found", rec.rv))
            /\ pc' = "write"
            /\ UNCHANGED <<idx, outcome>>
  /\ UNCHANGED <<cfgVars, storeVars, envVars, mainVars, service, listed, errs, eps,
                 tickVars, items, cyclesStarted, written>>

StoreCreateOverwrite(rec) == "ok"

\* The store's answer to Create: a record that is there already is kept.
StoreCreate(rec) == IF rec.exists THEN "exists" ELSE "ok"

\* The store's answer to Update carrying token: the record must be there and,
\* unless the token is empty, the token must be the record's current one.
StoreUpdate(rec, token) ==
  IF ~rec.exists THEN "notfound"
  ELSE IF token # NoToken /\ token # rec.rv THEN "conflict"
  ELSE "ok"

BranchAlwaysCreate(f) == TRUE

\* apierrors.IsNotFound(err): the create branch.
CreateBranch(f) == ~f.found

UpdateTokenEmpty(f) == NoToken

\* eps.ResourceVersion = endpoints.ResourceVersion
UpdateToken(f) == f.resourceVersion

AcceptKeepLabels(key, e) ==
  /\ endpoints' = [endpoints EXCEPT ![key] =
                     IF @.exists
                     THEN [Stored(e, rvCounter + 1) EXCEPT !.labels = endpoints[key].labels \cup @]
                     ELSE Stored(e, rvCounter + 1)]
  /\ rvCounter' = rvCounter + 1
  /\ written' = written \cup {key}
  /\ Finish("ok")

AcceptMerge(key, e) ==
  /\ endpoints' = [endpoints EXCEPT ![key] =
                     IF @.exists
                     THEN [Stored(e, rvCounter + 1) EXCEPT !.subsets = endpoints[key].subsets \o @,
                                                          !.labels = endpoints[key].labels \cup @]
                     ELSE Stored(e, rvCounter + 1)]
  /\ rvCounter' = rvCounter + 1
  /\ written' = written \cup {key}
  /\ Finish("ok")

\* A write the store accepted: the record is replaced in full and gets a new
\* version token.
Accept(key, e) ==
  /\ endpoints' = [endpoints EXCEPT ![key] = Stored(e, rvCounter + 1)]
  /\ rvCounter' = rvCounter + 1
  /\ written' = written \cup {key}
  /\ Finish("ok")

Reject ==
  /\ Finish("err")
  /\ UNCHANGED <<endpoints, rvCounter, written>>

\* eclient.Create(eps) after not-found.
CreateEndpoints ==
  /\ Alive /\ pc = "write" /\ CreateBranch(fetched)
  /\ LET rec == endpoints[EpsKey]
     IN  \/ /\ ~stable
            /\ applyLog' = Append(applyLog, Call("create", eps.resourceVersion, "error", TokenOf(rec)))
            /\ Reject
         \/ /\ StoreCreate(rec) # "ok"
            /\ applyLog' = Append(applyLog, Call("create", eps.resourceVersion, StoreCreate(rec), TokenOf(rec)))
            /\ Reject
         \/ /\ StoreCreate(rec) = "ok"
            /\ applyLog' = Append(applyLog, Call("create", eps.resourceVersion, "ok", TokenOf(rec)))
            /\ Accept(EpsKey, eps)
  /\ UNCHANGED <<cfgVars, services, nodes, envVars, mainVars, localVars, tickVars,
                 items, cyclesStarted>>

\* eps.ResourceVersion = endpoints.ResourceVersion; eclient.Update(eps).
UpdateEndpoints ==
  /\ Alive /\ pc = "write" /\ ~CreateBranch(fetched)
  /\ LET rec == endpoints[EpsKey]
         new == [eps EXCEPT !.resourceVersion = UpdateToken(fetched)]
         ans == StoreUpdate(rec, new.resourceVersion)
     IN  /\ eps' = new
         /\ \/ /\ ~stable
               /\ applyLog' = Append(applyLog, Call("update", new.resourceVersion, "error", TokenOf(rec)))
               /\ Reject
            \/ /\ ans # "ok"
               /\ applyLog' = Append(applyLog, Call("update", new.resourceVersion, ans, TokenOf(rec)))
               /\ Reject
            \/ /\ ans = "ok"
               /\ applyLog' = Append(applyLog, Call("update", new.resourceVersion, "ok", TokenOf(rec)))
               /\ Accept(EpsKey, new)
  /\ UNCHANGED <<cfgVars, services, nodes, envVars, mainVars, service, listed, errs,
                 fetched, tickVars, items, cyclesStarted>>

\* ------------------------------------------------------------ environment

\* Another client of the store writes or deletes the Endpoints object key.
OtherWriter(key) ==
  /\ Alive /\ ~stable /\ envBudget > 0
  /\ \/ endpoints' = [endpoints EXCEPT ![key] = ForeignRecord(rvCounter + 1)]
     \/ /\ endpoints[key].exists
        /\ endpoints' = [endpoints EXCEPT ![key] = NoRecord]
  /\ rvCounter' = rvCounter + 1
  /\ envBudget' = envBudget - 1
  /\ UNCHANGED <<cfgVars, services, nodes, stable, mainVars, pc, localVars, tickVars,
                 cycleVars, applyLog>>

\* A machine joins or leaves the pool.
NodeChange(n) ==
  /\ Alive /\ ~stable /\ envBudget > 0
  /\ nodes' = IF n \in nodes THEN nodes \ {n} ELSE nodes \cup {n}
  /\ envBudget' = envBudget - 1
  /\ UNCHANGED <<cfgVars, services, endpoints, rvCounter, stable, mainVars, pc,
                 localVars, tickVars, cycleVars, applyLog>>

\* A Service object is deleted, loses the enabled label, or changes its ports.
ServiceChange(key) ==
  /\ Alive /\ ~stable /\ envBudget > 0
  /\ services[key].exists
  /\ \/ services' = [services EXCEPT ![key].exists = FALSE]
     \/ /\ services[key].enabled
        /\ services' = [services EXCEPT ![key].enabled = FALSE]
     \/ services' = [services EXCEPT ![key].nports = (@ + 1) % (MaxPorts + 1)]
  /\ envBudget' = envBudget - 1
  /\ UNCHANGED <<cfgVars, nodes, endpoints, rvCounter, stable, mainVars, pc, localVars,
                 tickVars, cycleVars, applyLog>>

\* From here on nothing changes, no call fails and no stop signal arrives.
Stabilize ==
  /\ mainPc = "serving" /\ ~shutdown /\ ~stable
  /\ stable' = TRUE
  /\ UNCHANGED <<cfgVars, storeVars, envBudget, mainVars, pc, localVars, tickVars,
                 cycleVars, applyLog>>

\* ------------------------------------------------------------ specification

\* The steps of the goroutine that belong to a cycle or start one.
SyncSteps ==
  \/ FirstCycle \/ SelectTick \/ ListServices \/ Loop
  \/ GetService \/ ListNodes \/ GetEndpoints \/ CreateEndpoints \/ UpdateEndpoints

Syncer == SyncSteps \/ SelectStop

Next ==
  \/ MainStart \/ StopSignal \/ HttpDone \/ MainExit
  \/ Tick
  \/ Syncer
  \/ \E key \in Keys : OtherWriter(key)
  \/ \E n \in NodeNames : NodeChange(n)
  \/ \E key \in Keys : ServiceChange(key)

Spec == Init /\ [][Next]_vars

\* The program while no stop signal arrives, with the point from which the
\* environment is quiet.  The syncer goroutine keeps running and the ticker
\* keeps firing (up to MaxLiveTicks).
LiveTick == ticksFired < MaxLiveTicks /\ Tick

LiveNext ==
  \/ MainStart
  \/ LiveTick
  \/ SyncSteps
  \/ \E key \in Keys : OtherWriter(key)
  \/ \E n \in NodeNames : NodeChange(n)
  \/ \E key \in Keys : ServiceChange(key)
  \/ Stabilize

LiveSpec ==
  Init /\ [][LiveNext]_vars /\ WF_vars(MainStart) /\ WF_vars(SyncSteps) /\ WF_vars(LiveTick)


\* getNodeAddresses on its own: syncNodeEndpoints from the return of the node
\* listing on, for any list of at most MaxNodes nodes with any address lists.
MachineNames == <<"m1", "m2", "m3", "m4">>
NodeLists ==
  UNION { { [i \in 1..n |-> [name |-> MachineNames[i], addrs |-> f[i]]] :
              f \in [1..n -> AddrLists] } : n \in 0..MaxNodes }

AddrInit ==
  /\ variant = "label"
  /\ serviceList = <<Role(1, <<>>), Role(2, <<>>)>>
  /\ services = [key \in Keys |->
                   [exists |-> TRUE, enabled |-> TRUE, annotated |-> TRUE,
                    nports |-> MaxPorts]]
  /\ nodes = {}
  /\ endpoints = [k \in Keys |-> NoRecord]
  /\ rvCounter = 0
  /\ envBudget = 0
  /\ stable = FALSE
  /\ mainPc = "serving"
  /\ shutdown = FALSE
  /\ httpDone = FALSE
  /\ pc = "listnodes"
  /\ idx = 1
  /\ items = EnabledServices
  /\ service = [namespace |-> Ns, name |-> SvcNames[1],
                labels |-> ServiceLabels(services[KeyOrder[1]]),
                ports |-> ServicePorts(MaxPorts)]
  /\ listed \in NodeLists
  /\ errs = <<>>
  /\ eps = Null
  /\ fetched = Null
  /\ tickerOn = FALSE
  /\ tickPending = 0
  /\ ticksFired = 0
  /\ ticksConsumed = 0
  /\ cyclesStarted = 1
  /\ outcome = <<>>
  /\ written = {}
  /\ applyLog = <<>>

\* The node listing has returned `listed`.
ResolveListed ==
  /\ Alive /\ pc = "listnodes"
  /\ Resolve(listed)
  /\ pc' = "getep"
  /\ UNCHANGED <<cfgVars, storeVars, envVars, mainVars, service, fetched, tickVars,
                 cycleVars, applyLog>>

AddrSpec == AddrInit /\ [][ResolveListed]_vars

\* ------------------------------------------------------------------ claims

InCycle == pc \in {"list", "loop", "getsvc", "listnodes", "getep", "write"}
Last(seq) == seq[Len(seq)]
IsWrite(c) == c.op \in {"create", "update"}

\* C1: in every execution of CreateOrUpdateEndpoints the first store call is
\* the fetch and at most one write follows it; after not-found the write is a
\* create that carries no version token, after a successful fetch it is an
\* update that carries exactly the token the fetch returned, and after a
\* failed fetch there is no write.
C1_CreateOrUpdateBranch ==
  /\ Len(applyLog) <= 2
  /\ Len(applyLog) >= 1 => applyLog[1].op = "get"
  /\ Len(applyLog) = 2 =>
       /\ applyLog[1].res \in {"notfound", "found"}
       /\ applyLog[1].res = "notfound" =>
            applyLog[2].op = "create" /\ applyLog[2].token = NoToken
       /\ applyLog[1].res = "found" =>
            applyLog[2].op = "update" /\ applyLog[2].token = applyLog[1].token
  /\ pc = "write" => Len(applyLog) = 1 /\ applyLog[1].res # "error"

\* C1 witness: an update accepted after a successful fetch.
C1_Witness ==
  /\ Len(applyLog) = 2
  /\ applyLog[1].res = "found"
  /\ applyLog[2].op = "update" /\ applyLog[2].res = "ok"
  /\ applyLog[2].token = applyLog[1].token /\ applyLog[2].token # NoToken

\* C2: when syncAndLog returns from the range loop every item of the list has
\* been processed (skipped, failed or succeeded), whichever items failed, and
\* every item that succeeded had its record written to the store in this cycle.
C2_FaultIsolation ==
  /\ InCycle /\ pc # "list" => Len(outcome) <= Len(items)
  /\ pc = "loop" /\ idx > Len(items) => Len(outcome) = Len(items)
  /\ \A j \in 1..Len(outcome) :
       outcome[j] = "ok" => ItemKey(items[j]) \in written

\* C2 witness: the first service failed, the second succeeded, the loop is over.
C2_Witness ==
  /\ pc = "loop" /\ idx > Len(items)
  /\ outcome = <<"err", "ok">>
  /\ ItemKey(items[2]) \in written
  /\ endpoints[ItemKey(items[2])].exists

\* An accepted update replaced the version fetched in the same apply; an update
\* sent after the record changed is not accepted and is the service's error.
C3_UpdateReplacesFetched ==
  \A j \in 1..Len(applyLog) :
    applyLog[j].op = "update" =>
      /\ applyLog[j].res = "ok" =>
           /\ applyLog[j].token = applyLog[j].before
           /\ applyLog[j].token = applyLog[1].token
      /\ applyLog[j].before # applyLog[1].token =>
           /\ applyLog[j].res # "ok"
           /\ Last(outcome) = "err"
           /\ EpsKey \notin written

\* A write the store did not accept leaves every stored record as it was.
C3_RejectedKeepsRecord ==
  [][pc = "write" /\ pc' = "loop" /\ Last(applyLog').res # "ok" =>
       endpoints' = endpoints /\ Last(outcome') = "err"]_vars

\* C3: an update of the operator that the store accepts carries the token of
\* the version it replaces, which is the one fetched in the same apply (no lost
\* update); an update whose token is stale because another writer changed the
\* record in between is rejected, leaves the stored record as the other writer
\* left it, and is reported as that service's error in this cycle.
C3_OptimisticConcurrency == []C3_UpdateReplacesFetched /\ C3_RejectedKeepsRecord

\* C3 witness: another writer changed the record between the fetch and the
\* update; the update was answered with a conflict and the record is the other
\* writer's.
C3_Witness ==
  /\ Len(applyLog) = 2
  /\ applyLog[2].op = "update" /\ applyLog[2].res = "conflict"
  /\ applyLog[2].before # applyLog[1].token
  /\ endpoints[EpsKey] = ForeignRecord(applyLog[2].before)
  /\ Last(outcome) = "err"


\* C5: once the stop signal has arrived periodicSyncer starts no cycle: no call
\* of syncAndLog begins while the shutdown channel is closed, neither the first
\* one at startup nor one for a tick that is pending together with the stop.
C5_NoCycleAfterStop ==
  [][shutdown => cyclesStarted' = cyclesStarted]_vars

\* C6: the process exits only after the syncer goroutine has returned and the
\* listener goroutine has finished; it never exits while a cycle is in flight,
\* in particular not between a fetch and its write.
C6_ExitWaitsForBoth ==
  mainPc = "exited" => /\ httpDone
                       /\ pc = "done"
                       /\ ~InCycle
                       /\ pc # "write"

\* However many ticks fire, at most one is pending.
C7_OneTickKept == tickPending <= 1

\* A cycle starts only when none is running (startup or the select).
C7_StartsFromIdle ==
  [][cyclesStarted' # cyclesStarted =>
       /\ pc \in {"init", "select"} /\ InCycle'
       /\ cyclesStarted' = cyclesStarted + 1]_vars

\* A firing of the ticker starts no cycle and moves the syncer nowhere.
C7_TickStartsNothing ==
  [][ticksFired' # ticksFired => pc' = pc /\ cyclesStarted' = cyclesStarted]_vars

\* C7: cycles are strictly sequential.  A cycle starts only from the idle
\* scheduler, so at most one is running; a tick that fires while a cycle runs
\* starts nothing; and however many ticks fire during an overrunning cycle at
\* most one is kept for afterwards, so an overrun is followed by at most one
\* immediate cycle.
C7_SequentialCycles == []C7_OneTickKept /\ C7_StartsFromIdle /\ C7_TickStartsNothing

\* C7 witness: the second cycle is running, two ticks have fired since it
\* started, and one is pending.
C7_Witness ==
  /\ InCycle /\ cyclesStarted = 2 /\ ticksConsumed = 1
  /\ ticksFired = 3 /\ tickPending = 1

\* C8: the first cycle starts before the ticker exists, so without any tick;
\* after it the cycles started are one more than the ticks received, and the
\* ticks received and pending are no more than the ticks fired.
C8_CyclePerTick ==
  /\ pc = "init" => cyclesStarted = 0
  /\ pc # "init" => cyclesStarted = ticksConsumed + 1
  /\ ~tickerOn => ticksFired = 0 /\ cyclesStarted <= 1
  /\ ticksConsumed + tickPending <= ticksFired
  /\ InCycle \/ pc \in {"init", "select", "done"}

\* C8 witness: the third cycle runs after two ticks, the first of which fired
\* only after the first cycle was over.
C8_Witness ==
  /\ InCycle /\ cyclesStarted = 3 /\ ticksConsumed = 2 /\ ticksFired = 2


OfType(node, t) == SelectSeq(node.addrs, LAMBDA a : a.type = t)
Lacks(node) == OfType(node, "InternalIP") = <<>> /\ OfType(node, "ExternalIP") = <<>>
Chosen(node) ==
  IF OfType(node, "InternalIP") # <<>> THEN Head(OfType(node, "InternalIP")).address
  ELSE Head(OfType(node, "ExternalIP")).address

\* C9: for the node list handed to getNodeAddresses, the addresses are, in
\* order, those of the nodes that have an internal or external address: the
\* first internal one if there is any, else the first external one; every node
\* with neither yields exactly one error and no address, and the nodes after it
\* are still resolved.  So #addresses = #listed - #lacking, #errors = #lacking.
C9_AddressResolution ==
  eps # Null =>
    LET A == eps.subsets[1].addresses
        kept == SelectSeq(listed, LAMBDA n : ~Lacks(n))
        dropped == SelectSeq(listed, Lacks)
    IN  /\ Len(A) = Len(listed) - Len(dropped)
        /\ Len(errs) = Len(dropped)
        /\ \A i \in 1..Len(kept) :
             i <= Len(A) /\ A[i].ip = Chosen(kept[i]) /\ A[i].targetRef = kept[i].name
        /\ \A i \in 1..Len(dropped) :
             i <= Len(errs) /\ errs[i] = dropped[i].name

\* C9 witness: three nodes; the first has no usable address, the second lists
\* an external address before its internal one, the third has external ones only.
C9_Witness ==
  /\ pc = "getep" /\ Len(listed) = 3
  /\ Lacks(listed[1])
  /\ Len(listed[2].addrs) = 3
  /\ listed[2].addrs[2].type = "ExternalIP" /\ listed[2].addrs[3].type = "InternalIP"
  /\ OfType(listed[3], "InternalIP") = <<>> /\ Len(OfType(listed[3], "ExternalIP")) = 2
  /\ errs = <<"m1">>
  /\ eps.subsets[1].addresses =
       << [ip |-> "10.0.0.1", targetRef |-> "m2"], [ip |-> "203.0.113.5", targetRef |-> "m3"] >>


\* The record built has one subset with the declared ports and the resolved
\* addresses.
C10_BuiltRecord ==
  /\ pc \in {"getep", "write"} => eps # Null
  /\ eps # Null =>
       /\ Len(eps.subsets) = 1
       /\ Len(eps.subsets[1].ports) = Len(service.ports)
       /\ \A j \in 1..Len(service.ports) :
            /\ eps.subsets[1].ports[j].name = service.ports[j].name
            /\ eps.subsets[1].ports[j].port = service.ports[j].port
       /\ Len(eps.subsets[1].addresses) = Len(SelectSeq(listed, LAMBDA n : ~Lacks(n)))

\* After a successful node listing the write is issued whatever the number of
\* addresses; an accepted write stores the built subsets and labels and makes
\* the service's outcome ok.
C10_WriteIssued ==
  [][/\ pc = "listnodes" /\ eps' # Null => pc' = "getep"
     /\ pc = "write" /\ pc' # pc =>
          /\ IsWrite(Last(applyLog'))
          /\ Last(applyLog').res = "ok" =>
               /\ Last(outcome') = "ok"
               /\ endpoints'[EpsKey].exists
               /\ endpoints'[EpsKey].subsets = eps.subsets
               /\ endpoints'[EpsKey].labels = service.labels]_vars

\* C10: the record the operator builds and writes has exactly one subset; its
\* ports are the P ports the service declares (name and number), its addresses
\* the N addresses resolved from the listed nodes, for any P and N including 0.
\* Whenever the node listing succeeds the write is issued, with no addresses
\* too, and when the store accepts it the stored subsets are the built ones
\* and the service's outcome is not an error.
C10_OneSubset == []C10_BuiltRecord /\ C10_WriteIssued

\* C10 witness: the only matching machine has no usable address; the record
\* was written with the declared ports and no address, and the outcome is ok.
C10_Witness ==
  /\ pc = "loop" /\ Len(applyLog) = 2 /\ Last(applyLog).res = "ok"
  /\ Last(outcome) = "ok"
  /\ Len(listed) = 1 /\ Len(errs) = 1
  /\ endpoints[EpsKey].exists
  /\ Len(endpoints[EpsKey].subsets) = 1
  /\ endpoints[EpsKey].subsets[1].addresses = <<>>
  /\ Len(endpoints[EpsKey].subsets[1].ports) = MaxPorts


\* The service key is reconciled by the cycles: a role is configured for it
\* (static variant) or it carries the enabled label and the node-selector
\* annotation (label variant), and the Service object exists.
TargetOf(key) == <<key[1], "/", key[2]>>
Managed(key) ==
  /\ services[key].exists
  /\ IF variant = "static"
     THEN /\ ~Malformed(serviceList)
          /\ \E r \in 1..Len(serviceList) : serviceList[r].service = TargetOf(key)
     ELSE services[key].enabled /\ services[key].annotated

SelectorOf(key) ==
  IF variant = "static"
  THEN serviceList[CHOOSE r \in 1..Len(serviceList) :
                     serviceList[r].service = TargetOf(key)].NodeLabelSelector
  ELSE Selectors[CHOOSE k \in SvcIds : KeyOrder[k] = key]

\* The addresses the machines currently matching sel resolve to.
ExpectedIPs(sel) ==
  {Chosen(Node(n)) : n \in {m \in nodes : sel \in NodeLabels[m] /\ ~Lacks(Node(m))}}

\* The stored record of key has exactly the declared ports of the service and
\* exactly the addresses of the machines that match its selector now.
Converged(key) ==
  LET rec == endpoints[key]
  IN  /\ rec.exists
      /\ Len(rec.subsets) = 1
      /\ rec.subsets[1].ports =
           [j \in 1..services[key].nports |->
              [name |-> AllPorts[j].name, port |-> AllPorts[j].port]]
      /\ {rec.subsets[1].addresses[i].ip : i \in 1..Len(rec.subsets[1].addresses)}
           = ExpectedIPs(SelectorOf(key))
      /\ Len(rec.subsets[1].addresses) = Cardinality(ExpectedIPs(SelectorOf(key)))

\* A cycle will still start: a tick is pending or the ticker can still fire.
TicksLeft == tickPending > 0 \/ ticksFired < MaxLiveTicks

\* C4: once the environment is quiet (services, machines and addresses no
\* longer change, no store call fails, no other writer, no stop signal) and a
\* cycle is still to come, the stored record of every managed service
\* eventually has exactly the declared ports and the currently resolved
\* addresses, and from then on keeps them.
C4_Convergence ==
  \A key \in Keys :
    [](stable /\ Managed(key) /\ TicksLeft => <>[]Converged(key))

\* C4 witness: the environment changed something, became quiet, and the record
\* of a managed service has converged in a cycle after that.
C4_Witness ==
  /\ stable /\ envBudget = 0 /\ ticksConsumed >= 1
  /\ \E key \in Keys :
       /\ Managed(key) /\ Converged(key)
       /\ endpoints[key].rv = rvCounter /\ rvCounter >= 3


\* The stored record rec has the labels and subsets of the built record e.
SameContent(rec, e) == rec.exists /\ rec.labels = e.labels /\ rec.subsets = e.subsets

\* C11: apply is idempotent.  An accepted write is a create when no record was
\* stored and an update when one was, and it leaves the built content stored.
\* When the stored record already has the content being applied (it is what
\* the previous application of the same service and addresses left, no other
\* writer having touched it since), the write is an update, and the ports,
\* addresses and labels stored after it are those stored before it; only the
\* version token is new.  So two applications in a row write create-then-update
\* or update-then-update and leave the same content.
C11_Idempotence ==
  [][pc = "write" /\ pc' = "loop" /\ Last(applyLog').res = "ok" =>
       LET old == endpoints[EpsKey]
           new == endpoints'[EpsKey]
       IN  /\ Last(applyLog').op = (IF old.exists THEN "update" ELSE "create")
           /\ SameContent(new, eps)
           /\ SameContent(old, eps) =>
                /\ Last(applyLog').op = "update"
                /\ new.subsets = old.subsets /\ new.labels = old.labels
                /\ new.rv # old.rv]_vars

\* C11 witness: nothing changed in the environment, the first cycle created
\* the record and the second cycle has just updated it with the same content
\* (two addresses, the declared ports).
C11_Witness ==
  /\ envBudget = MaxEnvChanges /\ cyclesStarted = 2 /\ rvCounter = 2
  /\ pc = "loop" /\ Len(applyLog) = 2
  /\ applyLog[1].res = "found" /\ applyLog[1].token = 1
  /\ applyLog[2].op = "update" /\ applyLog[2].res = "ok"
  /\ SameContent(endpoints[EpsKey], eps)
  /\ endpoints[EpsKey].rv = 2
  /\ Len(eps.subsets[1].addresses) = 2 /\ Len(eps.subsets[1].ports) = MaxPorts

\* The number of separators in a target string.
Separators(s) == Cardinality({i \in 1..Len(s) : s[i] = "/"})

\* C12: in the static variant, when some role has a non-empty target without
\* exactly one separator, main returns at startup: the listener and the syncer
\* are never started, no cycle runs and no store call is made.  Otherwise a
\* role with an empty target is skipped in every cycle, without any store
\* call for it, and the roles after it are still processed.
C12_StartupValidation ==
  variant = "static" =>
    /\ (\E r \in 1..Len(serviceList) :
          serviceList[r].service # <<>> /\ Separators(serviceList[r].service) # 1) =>
         /\ mainPc \in {"start", "terminated"}
         /\ pc = "init" /\ cyclesStarted = 0 /\ ~tickerOn /\ ~httpDone
         /\ service = Null /\ listed = <<>> /\ fetched = Null /\ applyLog = <<>>
         /\ rvCounter = 0 /\ \A key \in Keys : endpoints[key] = NoRecord
    /\ InCycle => items = serviceList
    /\ \A j \in 1..Len(outcome) :
         (items[j].service = <<>>) <=> (outcome[j] = "skipped")
    /\ pc \in {"getsvc", "listnodes", "getep", "write"} => CurrentItem.service # <<>>
    /\ pc = "loop" /\ idx > Len(items) => Len(outcome) = Len(serviceList)

\* C12 witness: the first role is well-formed, the second has two separators;
\* main has returned and nothing was started or called.
C12_Witness ==
  /\ variant = "static" /\ mainPc = "terminated"
  /\ Separators(serviceList[1].service) = 1
  /\ Separators(serviceList[2].service) = 2
  /\ pc = "init" /\ cyclesStarted = 0 /\ applyLog = <<>>

\* A service without the annotation is never handed to syncNodeEndpoints, and
\* when the loop is over every listed service has been processed.
C13_UnannotatedNotSynced ==
  variant = "label" =>
    /\ \A j \in 1..Len(outcome) :
         /\ (~items[j].annotated) <=> (outcome[j] = "skipped")
         /\ ~items[j].annotated => ItemKey(items[j]) \notin written
    /\ pc \in {"getsvc", "listnodes", "getep", "write"} => CurrentItem.annotated
    /\ pc = "loop" /\ idx > Len(items) => Len(outcome) = Len(items)

\* The step the syncer takes at a service without the annotation goes to the
\* next item and touches nothing.
C13_SkipStep ==
  [][(/\ variant = "label" /\ pc = "loop" /\ idx <= Len(items) /\ ~items[idx].annotated
      /\ <<pc, idx, outcome>>' # <<pc, idx, outcome>>) =>
       /\ pc' = "loop" /\ idx' = idx + 1 /\ items' = items
       /\ Last(outcome') = "skipped"
       /\ applyLog' = <<>> /\ service' = Null /\ fetched' = Null
       /\ endpoints' = endpoints /\ rvCounter' = rvCounter]_vars

\* C13: in the label variant a listed service without the node-selector
\* annotation is skipped (with a logged error): no service fetch, node
\* listing, record fetch, create or update is made for it in that cycle, its
\* record is not touched, and the loop goes on, so every other listed service
\* is still processed in the same cycle.
C13_MissingAnnotation == []C13_UnannotatedNotSynced /\ C13_SkipStep

\* C13 witness: the first listed service has no annotation and was skipped,
\* the second was reconciled and its record written; the first has no record.
C13_Witness ==
  /\ variant = "label" /\ pc = "loop" /\ Len(items) = 2 /\ idx > Len(items)
  /\ ~items[1].annotated /\ items[2].annotated
  /\ outcome = <<"skipped", "ok">>
  /\ written = {ItemKey(items[2])}
  /\ endpoints[ItemKey(items[2])].exists
  /\ ~endpoints[ItemKey(items[1])].exists

\* C14: an update of the operator that the store accepts replaces the whole
\* record: what is stored afterwards is exactly the record freshly built from
\* the fetched service and the listed nodes (labels, the one subset with its
\* ports and addresses) under a new version token, whatever was stored before,
\* content of another writer included.  From the previous record the update
\* took nothing but the version token it was sent with.  No other record
\* changes.
C14_FullReplace ==
  [][pc = "write" /\ pc' = "loop" /\ Last(applyLog').op = "update"
       /\ Last(applyLog').res = "ok" =>
       LET fresh == BuildEndpoints(service, getNodeAddresses(listed).addresses)
       IN  /\ endpoints'[EpsKey] =
                [exists |-> TRUE, rv |-> rvCounter', labels |-> fresh.labels,
                 subsets |-> fresh.subsets]
           /\ fresh.labels = service.labels
           /\ Last(applyLog').token = endpoints[EpsKey].rv
           /\ rvCounter' # endpoints[EpsKey].rv
           /\ \A key \in Keys \ {EpsKey} : endpoints'[key] = endpoints[key]]_vars

\* C14 witness: in the first cycle the operator found a record another writer
\* had put there, and its update was accepted: the stored record carries the
\* service's labels and the built subset, nothing of the other writer's.
C14_Witness ==
  /\ pc = "loop" /\ cyclesStarted = 1 /\ envBudget = 0 /\ rvCounter = 2
  /\ Len(applyLog) = 2
  /\ applyLog[1].res = "found" /\ applyLog[1].token = 1
  /\ applyLog[2].op = "update" /\ applyLog[2].res = "ok" /\ applyLog[2].token = 1
  /\ endpoints[EpsKey].rv = 2
  /\ endpoints[EpsKey].labels = service.labels
  /\ "other-writer" \notin endpoints[EpsKey].labels
  /\ Len(endpoints[EpsKey].subsets) = 1
  /\ Len(endpoints[EpsKey].subsets[1].addresses) = 2

\* A record call is made only after the service was fetched and its nodes
\* were listed; a service whose fetch or listing failed has none.
C15_NoCallWithoutResolve ==
  /\ applyLog # <<>> => service # Null /\ eps # Null
  /\ pc \in {"getep", "write"} => service # Null /\ eps # Null
  /\ pc \in {"getsvc", "listnodes"} => applyLog = <<>> /\ fetched = Null /\ eps = Null

\* The step in which the fetch of the service or the listing of its nodes
\* fails: one error is added to the outcomes, the loop moves to the next item,
\* and the store is as before.
C15_FailureStep ==
  [][(pc' = "loop" /\ pc \in {"getsvc", "listnodes"}) =>
       /\ outcome' = Append(outcome, "err")
       /\ idx' = idx + 1 /\ items' = items
       /\ applyLog' = <<>> /\ fetched' = Null /\ eps' = Null
       /\ endpoints' = endpoints /\ rvCounter' = rvCounter /\ written' = written]_vars

\* C15: when fetching the service or listing the nodes of its selector fails,
\* no record fetch, create or update is issued for that service in that
\* cycle: its stored record keeps content and version token, the failure is
\* one error in the outcomes of the cycle, for that service only, and the loop
\* goes on with the next one.
C15_ResolverFailure == []C15_NoCallWithoutResolve /\ C15_FailureStep

\* C15 witness: the first cycle wrote the record; in the second cycle the
\* service was fetched but the node listing failed, and the record is still
\* the one of the first cycle.
C15_Witness ==
  /\ pc = "loop" /\ cyclesStarted = 2 /\ envBudget = MaxEnvChanges
  /\ Len(outcome) >= 1 /\ Last(outcome) = "err"
  /\ service # Null /\ eps = Null /\ applyLog = <<>>
  /\ written = {}
  /\ endpoints[<<service.namespace, service.name>>].exists
  /\ endpoints[<<service.namespace, service.name>>].rv = 1
  /\ Len(endpoints[<<service.namespace, service.name>>].subsets[1].addresses) = 2

Failed(c) == c.res \notin {"ok", "found", "notfound"}

\* For the item being processed there is at most one record fetch and after
\* it at most one write, and a failed call is the last one made for it.
C16_OneAttempt ==
  /\ Len(applyLog) <= 2
  /\ \A j \in 1..Len(applyLog) :
       /\ (applyLog[j].op = "get") <=> (j = 1)
       /\ Failed(applyLog[j]) => j = Len(applyLog) /\ pc = "loop" /\ Last(outcome) = "err"

\* Within a cycle the loop only moves forward, one item at a time, and the
\* calls of an item are forgotten only at the loop head; after a failed call
\* the loop is at the next item.
C16_MovesOn ==
  [][/\ (InCycle /\ InCycle' /\ cyclesStarted' = cyclesStarted) =>
          /\ idx' \in {idx, idx + 1}
          /\ applyLog' # applyLog =>
               \/ applyLog' = <<>> /\ pc = "loop"
               \/ Len(applyLog') = Len(applyLog) + 1 /\ pc \in {"getep", "write"}
     /\ (pc \in {"getep", "write"} /\ pc' = "loop" /\ Failed(Last(applyLog'))) =>
          /\ idx' = idx + 1 /\ items' = items
          /\ endpoints' = endpoints]_vars

\* After the first cycle a cycle starts only by receiving a tick.
C16_NextTickOnly ==
  [][cyclesStarted' # cyclesStarted /\ cyclesStarted >= 1 =>
       pc = "select" /\ tickPending >= 1 /\ ticksConsumed' = ticksConsumed + 1]_vars

C17_CreateRejected ==
  [][(pc = "write" /\ pc' = "loop" /\ Last(applyLog').op = "create"
        /\ endpoints[EpsKey].exists) =>
       /\ applyLog[1].res = "notfound"
       /\ Last(applyLog').res # "ok"
       /\ endpoints' = endpoints /\ rvCounter' = rvCounter
       /\ Last(outcome') = "err"]_vars

\* A fetch that finds the record returns its token, and the write after it is
\* an update carrying that token.
C17_ThenUpdate ==
  [][/\ (pc = "getep" /\ pc' = "write" /\ endpoints[EpsKey].exists) =>
          fetched' = [found |-> TRUE, resourceVersion |-> endpoints[EpsKey].rv]
     /\ (pc = "write" /\ pc' = "loop" /\ fetched.found) =>
          /\ Last(applyLog').op = "update"
          /\ Last(applyLog').token = fetched.resourceVersion
          /\ fetched.resourceVersion # NoToken]_vars

\* C17: when the fetch reports not-found and another writer creates the
\* record before the operator's create, the create is rejected, the other
\* writer's record stays as it is, and the rejection is the error of that
\* service in this cycle.  A later cycle that fetches the record finds it and
\* takes the update branch with the token of the stored record.
C17_CreateRace == C17_CreateRejected /\ C17_ThenUpdate

\* C17 witness: not-found, then the other writer's create, then the operator's
\* create answered "already exists"; the record is the other writer's.
C17_Witness ==
  /\ pc = "loop" /\ Len(applyLog) = 2
  /\ applyLog[1].res = "notfound"
  /\ applyLog[2].op = "create" /\ applyLog[2].res = "exists"
  /\ applyLog[2].token = NoToken
  /\ endpoints[EpsKey] = ForeignRecord(rvCounter)
  /\ Last(outcome) = "err" /\ EpsKey \notin written

\* The keys of the items of the current cycle's list that are not skipped.
ListedKeys == {ItemKey(items[j]) : j \in {i \in 1..Len(items) : ~ItemSkipped(items[i])}}

\* What the operator has written in a cycle are records of items of that
\* cycle's list, and a record call is only made for the item being processed,
\* whose Service was fetched in this cycle.
C18_WritesOnlyListed ==
  /\ written \subseteq ListedKeys
  /\ pc \in {"getep", "write"} =>
       /\ EpsKey = ItemKey(CurrentItem)
       /\ EpsKey = <<service.namespace, service.name>>
       /\ ~ItemSkipped(CurrentItem)

\* The list of a cycle of the label variant holds only Service objects that
\* exist and carry the enabled label when listed; the list of the static
\* variant is the configured roles.
C18_ListIsManaged ==
  [][(pc = "list" /\ pc' = "loop") =>
       \A j \in 1..Len(items') :
         /\ services[ItemKey(items'[j])].exists
         /\ services[ItemKey(items'[j])].enabled]_vars

\* A step of the syncer that changes the store is a create or an update of
\* the record of the item being processed: that record exists afterwards, no
\* record is removed and no other record changes.
C18_OnlyCreateOrUpdate ==
  [][(endpoints' # endpoints /\ <<pc, idx, outcome>>' # <<pc, idx, outcome>>) =>
       /\ pc = "write" /\ IsWrite(Last(applyLog')) /\ Last(applyLog').res = "ok"
       /\ EpsKey \in ListedKeys
       /\ endpoints'[EpsKey].exists
       /\ \A key \in Keys \ {EpsKey} : endpoints'[key] = endpoints[key]]_vars

\* C18: the operator never deletes a record and writes only records of
\* services of the current cycle's list: its only store writes are create and
\* update for the (namespace, name) of the item being processed.  A service
\* that is no longer listed (label removed, Service deleted, role without
\* target) has no write in any later cycle, so its record stays as it is.
C18_NoDeleteNoForeignWrite ==
  []C18_WritesOnlyListed /\ C18_ListIsManaged /\ C18_OnlyCreateOrUpdate

\* C18 witness: the second service lost its label after its record was
\* written; a later cycle listed and wrote the first service only, and the
\* second service's record is still stored.
C18_Witness ==
  /\ variant = "label" /\ cyclesStarted >= 2
  /\ pc = "loop" /\ idx > Len(items) /\ Len(items) = 1
  /\ written = {KeyOrder[1]}
  /\ services[KeyOrder[2]].exists /\ ~services[KeyOrder[2]].enabled
  /\ endpoints[KeyOrder[2]].exists
  /\ endpoints[KeyOrder[2]].labels # {"other-writer"}
  /\ endpoints[KeyOrder[2]].rv < endpoints[KeyOrder[1]].rv

\* While the services are being listed nothing has been processed or written
\* in this cycle, and the syncer idle at the select with a tick pending can
\* start the next cycle.
C19_NothingYet ==
  /\ pc = "list" =>
       /\ variant = "label"
       /\ items = <<>> /\ outcome = <<>> /\ written = {} /\ idx = 1
  /\ (Alive /\ pc = "select" /\ tickPending > 0) => ENABLED SelectTick

\* The listing step either hands its result to the loop or, on an error, ends
\* the cycle: the syncer is back at the select with the ticker running, no
\* item was processed, the store is as before, and no tick was used up.
C19_ListStep ==
  [][(pc = "list" /\ pc' # "list") =>
       /\ pc' \in {"loop", "select"}
       /\ endpoints' = endpoints /\ rvCounter' = rvCounter
       /\ applyLog' = applyLog /\ service' = service /\ fetched' = fetched
       /\ pc' = "select" =>
            /\ tickerOn'
            /\ outcome' = <<>> /\ written' = {}
            /\ cyclesStarted' = cyclesStarted
            /\ tickPending' = tickPending /\ ticksConsumed' = ticksConsumed]_vars

\* C19: in the label variant, when the listing of the enabled services fails
\* the cycle ends at once: no service is reconciled, no store write is issued
\* and every stored record is as before; the error is logged, the syncer goes
\* back to waiting, and the next tick starts the next cycle.
C19_ListFailureEndsCycle == []C19_NothingYet /\ C19_ListStep

\* C19 witness: the first cycle is over without any item processed or record
\* written, the ticker has been created and fired, and the syncer is at the
\* select with the tick pending.
C19_Witness ==
  /\ variant = "label" /\ pc = "select" /\ cyclesStarted = 1
  /\ tickerOn /\ ticksFired = 1 /\ tickPending = 1 /\ ticksConsumed = 0
  /\ rvCounter = 0 /\ envBudget = MaxEnvChanges
  /\ service = Null /\ applyLog = <<>>
  /\ \A key \in Keys : endpoints[key] = NoRecord

====
